---- MODULE Spec2Model ----
(***************************************************************************)
(* Model of the assistant session of assistente_local.py                   *)
(* (class AssistenteAcademicoCristao and the shutdown of its command       *)
(* loop).                                                                  *)
(*                                                                         *)
(* A Python str is a sequence of one-character strings.  The literals of   *)
(* the source are written in ASCII: an emoji prefix of a message is        *)
(* dropped and an accented letter is written without its accent.  The      *)
(* instruction preamble is cut after its first sentence.  Available memory *)
(* is counted in KiB.  An Interaction is its question and its answer; its  *)
(* timestamp and latency are written once by the append and read only by   *)
(* the export and the statistics.                                          *)
(***************************************************************************)
EXTENDS Integers, Sequences, FiniteSets, TLC

VARIABLES historico, cache_respostas, blob, exportado, fase, geradas, ult

vars == <<historico, cache_respostas, blob, exportado, fase, geradas, ult>>

----------------------------------------------------------------------------
(* Bounds of the model *)

MaxHist == 1
MaxCache == 2
MaxItens == 1

----------------------------------------------------------------------------
(* Python str operations *)

Nulo == << "NULO" >>

Minusculas ==
    [ A |-> "a", B |-> "b", C |-> "c", D |-> "d", E |-> "e", F |-> "f",
      G |-> "g", H |-> "h", I |-> "i", J |-> "j", K |-> "k", L |-> "l",
      M |-> "m", N |-> "n", O |-> "o", P |-> "p", Q |-> "q", R |-> "r",
      S |-> "s", T |-> "t", U |-> "u", V |-> "v", W |-> "w", X |-> "x",
      Y |-> "y", Z |-> "z" ]

Minuscula(c) == IF c \in DOMAIN Minusculas THEN Minusculas[c] ELSE c

lower(s) == [i \in 1..Len(s) |-> Minuscula(s[i])]

Espaco(c) == c \in {" ", "\t", "\n", "\r", "\f"}

RECURSIVE SplitDe(_, _, _)
SplitDe(s, i, palavra) ==
    IF i > Len(s)
    THEN IF palavra = <<>> THEN <<>> ELSE <<palavra>>
    ELSE IF Espaco(s[i])
         THEN IF palavra = <<>>
              THEN SplitDe(s, i + 1, <<>>)
              ELSE <<palavra>> \o SplitDe(s, i + 1, <<>>)
         ELSE SplitDe(s, i + 1, Append(palavra, s[i]))

split(s) == SplitDe(s, 1, <<>>)

Contem(agulha, palheiro) ==
    \E i \in 0..(Len(palheiro) - Len(agulha)) :
        \A j \in 1..Len(agulha) : palheiro[i + j] = agulha[j]

Cortar(s, n) == SubSeq(s, 1, IF Len(s) < n THEN Len(s) ELSE n)

Ultimos(seq, n) ==
    SubSeq(seq, (IF Len(seq) > n THEN Len(seq) - n + 1 ELSE 1), Len(seq))

----------------------------------------------------------------------------
(* Literals of the source *)

contexto_cristao ==
    << "V", "o", "c", "e", " ", "e", " ", "u", "m", " ", "a", "s",
       "s", "i", "s", "t", "e", "n", "t", "e", " ", "a", "c", "a",
       "d", "e", "m", "i", "c", "o", " ", "g", "u", "i", "a", "d",
       "o", " ", "p", "o", "r", " ", "p", "r", "i", "n", "c", "i",
       "p", "i", "o", "s", " ", "c", "r", "i", "s", "t", "a", "o",
       "s", "." >>

ROTULO_CONTEXTO ==
    << "C", "o", "n", "t", "e", "x", "t", "o", " ", "d", "a", " ",
       "a", "u", "l", "a", ":" >>

ROTULO_HISTORICO ==
    << "H", "i", "s", "t", "o", "r", "i", "c", "o", " ", "r", "e",
       "c", "e", "n", "t", "e", ":" >>

ROTULO_PERGUNTA ==
    << "P", "e", "r", "g", "u", "n", "t", "a", " ", "a", "t", "u",
       "a", "l", ":", " " >>

MSG_POUCOS_RECURSOS ==
    << "S", "i", "s", "t", "e", "m", "a", " ", "c", "o", "m", " ",
       "p", "o", "u", "c", "o", "s", " ", "r", "e", "c", "u", "r",
       "s", "o", "s", ".", " ", "T", "e", "n", "t", "e", " ", "u",
       "m", "a", " ", "p", "e", "r", "g", "u", "n", "t", "a", " ",
       "m", "a", "i", "s", " ", "s", "i", "m", "p", "l", "e", "s",
       "." >>

MSG_SEM_HISTORICO ==
    << "M", "o", "d", "o", " ", "o", "f", "f", "l", "i", "n", "e",
       ":", " ", "S", "e", "m", " ", "r", "e", "s", "p", "o", "s",
       "t", "a", "s", " ", "n", "o", " ", "h", "i", "s", "t", "o",
       "r", "i", "c", "o", ".", " ", "C", "o", "n", "e", "c", "t",
       "e", "-", "s", "e", " ", "p", "a", "r", "a", " ", "g", "e",
       "r", "a", "r", " ", "n", "o", "v", "a", "s", " ", "r", "e",
       "s", "p", "o", "s", "t", "a", "s", "." >>

MSG_NENHUMA_SIMILAR ==
    << "M", "o", "d", "o", " ", "o", "f", "f", "l", "i", "n", "e",
       ":", " ", "N", "e", "n", "h", "u", "m", "a", " ", "r", "e",
       "s", "p", "o", "s", "t", "a", " ", "s", "i", "m", "i", "l",
       "a", "r", " ", "e", "n", "c", "o", "n", "t", "r", "a", "d",
       "a", " ", "n", "o", " ", "h", "i", "s", "t", "o", "r", "i",
       "c", "o", "." >>

TAG_HISTORICO ==
    << "(", "D", "o", " ", "h", "i", "s", "t", "o", "r", "i", "c",
       "o", ")", " " >>

MSG_CONEXAO ==
    << "E", "r", "r", "o", " ", "d", "e", " ", "c", "o", "n", "e",
       "x", "a", "o", ".", " ", "V", "e", "r", "i", "f", "i", "q",
       "u", "e", " ", "s", "e", " ", "o", " ", "O", "l", "l", "a",
       "m", "a", " ", "e", "s", "t", "a", " ", "r", "o", "d", "a",
       "n", "d", "o", "." >>

MSG_MEMORIA ==
    << "M", "e", "m", "o", "r", "i", "a", " ", "i", "n", "s", "u",
       "f", "i", "c", "i", "e", "n", "t", "e", ".", " ", "F", "e",
       "c", "h", "e", " ", "a", "l", "g", "u", "n", "s", " ", "p",
       "r", "o", "g", "r", "a", "m", "a", "s", "." >>

MSG_MODELO ==
    << "M", "o", "d", "e", "l", "o", " ", "n", "a", "o", " ", "e",
       "n", "c", "o", "n", "t", "r", "a", "d", "o", ".", " ", "E",
       "x", "e", "c", "u", "t", "e", ":", " ", "o", "l", "l", "a",
       "m", "a", " ", "p", "u", "l", "l", " ", "l", "l", "a", "m",
       "a", "3", ".", "2", ":", "3", "b" >>

MSG_INESPERADO ==
    << "E", "r", "r", "o", " ", "i", "n", "e", "s", "p", "e", "r",
       "a", "d", "o", ".", " ", "V", "e", "r", "i", "f", "i", "q",
       "u", "e", " ", "o", "s", " ", "l", "o", "g", "s", " ", "p",
       "a", "r", "a", " ", "m", "a", "i", "s", " ", "d", "e", "t",
       "a", "l", "h", "e", "s", "." >>

----------------------------------------------------------------------------
(* Inputs of the model *)

Chamadas ==
    { [pergunta |-> <<"a">>, contexto_aula |-> <<>>],
      [pergunta |-> <<"a">>, contexto_aula |-> <<"_">>],
      [pergunta |-> <<"a", "_">>, contexto_aula |-> <<>>] }

Respostas == { <<"X">>, <<"Y">> }

ERRO_CONEXAO ==
    << "C", "o", "n", "n", "e", "c", "t", "i", "o", "n", ":", " ",
       "m", "o", "d", "e", "l", " ", "m", "e", "m", "o", "r", "y" >>

ERRO_MEMORIA ==
    << "M", "o", "d", "e", "l", " ", "n", "e", "e", "d", "s", " ",
       "m", "o", "r", "e", " ", "M", "E", "M", "O", "R", "Y" >>

ERRO_MODELO ==
    << "M", "O", "D", "E", "L", " ", "n", "o", "t", " ", "f", "o",
       "u", "n", "d" >>

ERRO_CAMPO ==
    << "'", "m", "e", "s", "s", "a", "g", "e", "'" >>

Erros == { ERRO_CONEXAO, ERRO_MEMORIA, ERRO_MODELO, ERRO_CAMPO }

KiBPorGiB == 1024 * 1024

Memorias == { 3 * KiBPorGiB - 1, 3 * KiBPorGiB }

ResultadosDisco == { "ok", "falha" }

Itens ==
    { [pergunta |-> <<"a">>, resposta |-> <<"K">>],
      [pergunta |-> <<"a", "_">>, resposta |-> <<"K">>],
      [pergunta |-> <<"a">>, resposta |-> Nulo] }

Listas(n) == UNION { [1..m -> Itens] : m \in 0..n }

ArquivosJson ==
    { [existe |-> FALSE, itens |-> <<>>] }
    \cup { [existe |-> TRUE, itens |-> l] : l \in Listas(MaxItens) }

----------------------------------------------------------------------------
(* Pure functions of the session *)

pode_executar_estrito(disponivel_kib) == disponivel_kib > 3 * KiBPorGiB

pode_executar(disponivel_kib) == disponivel_kib >= 3 * KiBPorGiB

ChaveCache(pergunta, contexto_aula) == pergunta \o <<"_">> \o contexto_aula

AcertoSemOpcao(cache, pergunta, contexto_aula, usar_cache) ==
    ChaveCache(pergunta, contexto_aula) \in DOMAIN cache

AcertoNoCache(cache, pergunta, contexto_aula, usar_cache) ==
    usar_cache /\ ChaveCache(pergunta, contexto_aula) \in DOMAIN cache

AnexarSoComCache(hist, usar_cache, pergunta, texto) ==
    IF usar_cache
    THEN Append(hist, [pergunta |-> pergunta, resposta |-> texto])
    ELSE hist

Anexar(hist, usar_cache, pergunta, texto) ==
    Append(hist, [pergunta |-> pergunta, resposta |-> texto])

RECURSIVE LinhasHistorico(_)
LinhasHistorico(hs) ==
    IF hs = <<>> THEN <<>>
    ELSE <<"P", ":", " ">> \o Cortar(Head(hs).pergunta, 100)
             \o <<".", ".", ".", "\n">>
         \o <<"R", ":", " ">> \o Cortar(Head(hs).resposta, 100)
             \o <<".", ".", ".", "\n", "\n">>
         \o LinhasHistorico(Tail(hs))

otimizar_prompt(hist, pergunta, contexto_aula) ==
    contexto_cristao \o <<"\n">>
    \o (IF contexto_aula # <<>>
        THEN <<"\n">> \o ROTULO_CONTEXTO \o <<"\n">> \o contexto_aula \o <<"\n">>
        ELSE <<>>)
    \o (IF hist # <<>>
        THEN <<"\n">> \o ROTULO_HISTORICO \o <<"\n">>
             \o LinhasHistorico(Ultimos(hist, 3))
        ELSE <<>>)
    \o <<"\n">> \o ROTULO_PERGUNTA \o pergunta

Mensagens(pergunta, prompt) ==
    << [role |-> "system", content |-> contexto_cristao],
       [role |-> "user", content |-> pergunta] >>

RECURSIVE Pontos(_, _)
Pontos(palavras, alvo) ==
    IF palavras = <<>> THEN 0
    ELSE (IF Contem(Head(palavras), alvo) THEN 1 ELSE 0)
         + Pontos(Tail(palavras), alvo)

RECURSIVE VarrerUltimo(_, _, _, _, _)
VarrerUltimo(hist, i, palavras, melhor_score, melhor_match) ==
    IF i > Len(hist) THEN [score |-> melhor_score, match |-> melhor_match]
    ELSE LET score == Pontos(palavras, lower(hist[i].pergunta))
         IN IF score >= melhor_score
            THEN VarrerUltimo(hist, i + 1, palavras, score, i)
            ELSE VarrerUltimo(hist, i + 1, palavras, melhor_score, melhor_match)

RECURSIVE Varrer(_, _, _, _, _)
Varrer(hist, i, palavras, melhor_score, melhor_match) ==
    IF i > Len(hist) THEN [score |-> melhor_score, match |-> melhor_match]
    ELSE LET score == Pontos(palavras, lower(hist[i].pergunta))
         IN IF score > melhor_score
            THEN Varrer(hist, i + 1, palavras, score, i)
            ELSE Varrer(hist, i + 1, palavras, melhor_score, melhor_match)

_buscar_resposta_similar(hist, pergunta) ==
    IF hist = <<>> THEN MSG_SEM_HISTORICO
    ELSE LET fim == Varrer(hist, 1, split(lower(pergunta)), 0, 0)
         IN IF fim.match # 0 /\ fim.score > 0
            THEN TAG_HISTORICO \o hist[fim.match].resposta
            ELSE MSG_NENHUMA_SIMILAR

_resposta_erro_trocada(erro) ==
    LET texto == lower(erro) IN
    IF Contem(<<"c", "o", "n", "n", "e", "c", "t", "i", "o", "n">>, texto)
    THEN MSG_CONEXAO
    ELSE IF Contem(<<"m", "o", "d", "e", "l">>, texto)
    THEN MSG_MODELO
    ELSE IF Contem(<<"m", "e", "m", "o", "r", "y">>, texto)
    THEN MSG_MEMORIA
    ELSE MSG_INESPERADO

_resposta_erro(erro) ==
    LET texto == lower(erro) IN
    IF Contem(<<"c", "o", "n", "n", "e", "c", "t", "i", "o", "n">>, texto)
    THEN MSG_CONEXAO
    ELSE IF Contem(<<"m", "e", "m", "o", "r", "y">>, texto)
    THEN MSG_MEMORIA
    ELSE IF Contem(<<"m", "o", "d", "e", "l">>, texto)
    THEN MSG_MODELO
    ELSE MSG_INESPERADO

MapaVazio == [k \in {} |-> <<>>]

GravarNada(cache, chave, valor) == cache

Gravar(cache, chave, valor) ==
    [k \in DOMAIN cache \cup {chave} |-> IF k = chave THEN valor ELSE cache[k]]

_salvar_cache_esquecido(arquivo, cache, disco) == arquivo

_salvar_cache(arquivo, cache, disco) ==
    IF disco = "ok"
    THEN [estado |-> "ok", dados |-> cache]
    ELSE [estado |-> "corrompido", dados |-> MapaVazio]

----------------------------------------------------------------------------
(* State of the session                                                    *)
(*   historico        self.historico, the list of Interactions             *)
(*   cache_respostas  self.cache_respostas, the answer cache               *)
(*   blob             the file cache_respostas.pkl                         *)
(*   exportado        the file historico_conversas.json                    *)
(*   fase             "sessao" while the command loop runs                 *)
(*   geradas          number of chat-API calls that returned a text        *)
(*   ult              the last call: its arguments, the path it took, what *)
(*                    it returned and what it asked of its collaborators   *)

ArquivoAusente == [estado |-> "ausente", dados |-> MapaVazio]

SessaoAnterior == Gravar(MapaVazio, ChaveCache(<<"a">>, <<>>), <<"X">>)

UltInicial ==
    [op |-> "__init__", pergunta |-> Nulo, contexto |-> Nulo,
     offline |-> FALSE, usar |-> FALSE, caminho |-> "nenhum",
     retorno |-> Nulo, ram |-> -1, verificacoes |-> 0, chamadas |-> 0,
     requisicao |-> <<>>, resposta_api |-> Nulo, erro_log |-> Nulo,
     salvamentos |-> 0, disco |-> "nenhum", previo |-> Nulo,
     itens |-> <<>>, carregado |-> Nulo]

Init ==
    /\ historico = <<>>
    /\ cache_respostas = MapaVazio
    /\ blob \in { ArquivoAusente, [estado |-> "ok", dados |-> SessaoAnterior] }
    /\ exportado = [estado |-> "ausente", dados |-> <<>>]
    /\ fase = "sessao"
    /\ geradas = 0
    /\ ult = UltInicial

Chamada(pergunta, contexto_aula, modo_offline, usar_cache) ==
    [UltInicial EXCEPT
        !.op = "responder", !.pergunta = pergunta, !.contexto = contexto_aula,
        !.offline = modo_offline, !.usar = usar_cache,
        !.carregado =
            IF /\ usar_cache /\ contexto_aula = <<>>
               /\ ult.op = "adicionar" /\ ult.caminho = "completo"
               /\ \E i \in 1..Len(ult.itens) : ult.itens[i].pergunta = pergunta
            THEN LET j == CHOOSE i \in 1..Len(ult.itens) :
                              /\ ult.itens[i].pergunta = pergunta
                              /\ \A k \in (i + 1)..Len(ult.itens) :
                                     ult.itens[k].pergunta # pergunta
                 IN ult.itens[j].resposta
            ELSE Nulo,
        !.previo = IF /\ usar_cache
                      /\ ult.op = "responder" /\ ult.caminho = "gerada"
                      /\ ult.usar
                      /\ ult.pergunta = pergunta /\ ult.contexto = contexto_aula
                   THEN ult.retorno ELSE Nulo]

RespostaDoCache(pergunta, contexto_aula, modo_offline, usar_cache) ==
    /\ ult' = [Chamada(pergunta, contexto_aula, modo_offline, usar_cache) EXCEPT
                  !.caminho = "cache",
                  !.retorno = cache_respostas[ChaveCache(pergunta, contexto_aula)]]
    /\ UNCHANGED <<historico, cache_respostas, blob, geradas>>

RespostaOffline(pergunta, contexto_aula, modo_offline, usar_cache) ==
    /\ ult' = [Chamada(pergunta, contexto_aula, modo_offline, usar_cache) EXCEPT
                  !.caminho = "offline",
                  !.retorno = _buscar_resposta_similar(historico, pergunta)]
    /\ UNCHANGED <<historico, cache_respostas, blob, geradas>>

PoucosRecursos(pergunta, contexto_aula, modo_offline, usar_cache, ram) ==
    /\ ult' = [Chamada(pergunta, contexto_aula, modo_offline, usar_cache) EXCEPT
                  !.caminho = "recursos", !.ram = ram, !.verificacoes = 1,
                  !.retorno = MSG_POUCOS_RECURSOS]
    /\ UNCHANGED <<historico, cache_respostas, blob, geradas>>

RespostaGerada(pergunta, contexto_aula, modo_offline, usar_cache, ram, texto, disco) ==
    LET cache_key == ChaveCache(pergunta, contexto_aula)
        prompt == otimizar_prompt(historico, pergunta, contexto_aula)
    IN
    /\ Len(historico) < MaxHist
    /\ usar_cache => Cardinality(DOMAIN cache_respostas) < MaxCache
    /\ historico' = Anexar(historico, usar_cache, pergunta, texto)
    /\ geradas' = geradas + 1
    /\ cache_respostas' = IF usar_cache
                          THEN Gravar(cache_respostas, cache_key, texto)
                          ELSE cache_respostas
    /\ blob' = IF usar_cache
               THEN _salvar_cache(blob, cache_respostas', disco)
               ELSE blob
    /\ ult' = [Chamada(pergunta, contexto_aula, modo_offline, usar_cache) EXCEPT
                  !.caminho = "gerada", !.ram = ram, !.verificacoes = 1,
                  !.chamadas = 1, !.requisicao = Mensagens(pergunta, prompt),
                  !.resposta_api = texto,
                  !.salvamentos = IF usar_cache THEN 1 ELSE 0,
                  !.disco = disco,
                  !.retorno = texto]

RespostaErroGuardada(pergunta, contexto_aula, modo_offline, usar_cache, ram, erro) ==
    LET prompt == otimizar_prompt(historico, pergunta, contexto_aula) IN
    /\ usar_cache => Cardinality(DOMAIN cache_respostas) < MaxCache
    /\ cache_respostas' = IF usar_cache
                          THEN Gravar(cache_respostas,
                                      ChaveCache(pergunta, contexto_aula),
                                      _resposta_erro(erro))
                          ELSE cache_respostas
    /\ ult' = [Chamada(pergunta, contexto_aula, modo_offline, usar_cache) EXCEPT
                  !.caminho = "erro", !.ram = ram, !.verificacoes = 1,
                  !.chamadas = 1, !.requisicao = Mensagens(pergunta, prompt),
                  !.erro_log = erro,
                  !.retorno = _resposta_erro(erro)]
    /\ UNCHANGED <<historico, blob, geradas>>

RespostaErro(pergunta, contexto_aula, modo_offline, usar_cache, ram, erro) ==
    LET prompt == otimizar_prompt(historico, pergunta, contexto_aula) IN
    /\ ult' = [Chamada(pergunta, contexto_aula, modo_offline, usar_cache) EXCEPT
                  !.caminho = "erro", !.ram = ram, !.verificacoes = 1,
                  !.chamadas = 1, !.requisicao = Mensagens(pergunta, prompt),
                  !.erro_log = erro,
                  !.retorno = _resposta_erro(erro)]
    /\ UNCHANGED <<historico, cache_respostas, blob, geradas>>

Resolver(pergunta, contexto_aula, modo_offline, usar_cache) ==
    IF AcertoNoCache(cache_respostas, pergunta, contexto_aula, usar_cache)
    THEN RespostaDoCache(pergunta, contexto_aula, modo_offline, usar_cache)
    ELSE IF modo_offline
    THEN RespostaOffline(pergunta, contexto_aula, modo_offline, usar_cache)
    ELSE \E ram \in Memorias :
           IF ~pode_executar(ram)
           THEN PoucosRecursos(pergunta, contexto_aula, modo_offline,
                               usar_cache, ram)
           ELSE \/ \E texto \in Respostas,
                      disco \in (IF usar_cache THEN ResultadosDisco
                                               ELSE {"nenhum"}) :
                      RespostaGerada(pergunta, contexto_aula, modo_offline,
                                     usar_cache, ram, texto, disco)
                \/ \E erro \in Erros :
                      RespostaErro(pergunta, contexto_aula, modo_offline,
                                   usar_cache, ram, erro)

responder ==
    /\ fase = "sessao"
    /\ \E chamada \in Chamadas, modo_offline \in BOOLEAN, usar_cache \in BOOLEAN :
          Resolver(chamada.pergunta, chamada.contexto_aula, modo_offline, usar_cache)
    /\ UNCHANGED <<exportado, fase>>

RECURSIVE Carregado(_, _)
Carregado(cache, itens) ==
    IF itens = <<>> THEN [cache |-> cache, completo |-> TRUE]
    ELSE IF Head(itens).resposta = Nulo
    THEN [cache |-> cache, completo |-> FALSE]
    ELSE Carregado(Gravar(cache, Head(itens).pergunta, Head(itens).resposta),
                   Tail(itens))

adicionar_conhecimento_personalizado ==
    /\ fase = "sessao"
    /\ \E arquivo_json \in ArquivosJson :
       LET fim == IF arquivo_json.existe
                  THEN Carregado(cache_respostas, arquivo_json.itens)
                  ELSE [cache |-> cache_respostas, completo |-> FALSE]
       IN
       \E disco \in (IF fim.completo THEN ResultadosDisco ELSE {"nenhum"}) :
          /\ Cardinality(DOMAIN fim.cache) <= MaxCache
          /\ cache_respostas' = fim.cache
          /\ blob' = IF fim.completo
                     THEN _salvar_cache(blob, fim.cache, disco)
                     ELSE blob
          /\ ult' = [UltInicial EXCEPT
                        !.op = "adicionar", !.itens = arquivo_json.itens,
                        !.caminho = IF fim.completo THEN "completo" ELSE "erro",
                        !.salvamentos = IF fim.completo THEN 1 ELSE 0,
                        !.disco = disco]
    /\ UNCHANGED <<historico, exportado, fase, geradas>>

carregar_cache ==
    /\ fase = "sessao"
    /\ \E disco \in (IF blob.estado = "ausente" THEN {"nenhum"}
                                                  ELSE ResultadosDisco) :
          /\ cache_respostas' = IF blob.estado = "ok" /\ disco = "ok"
                                THEN blob.dados
                                ELSE cache_respostas
          /\ ult' = [UltInicial EXCEPT
                        !.op = "carregar",
                        !.caminho = IF blob.estado = "ausente" THEN "ausente"
                                    ELSE IF blob.estado = "ok" /\ disco = "ok"
                                    THEN "completo" ELSE "erro",
                        !.disco = disco]
    /\ UNCHANGED <<historico, blob, exportado, fase, geradas>>

exportar_historico(arquivo, hist, disco) ==
    IF disco = "ok"
    THEN [estado |-> "ok", dados |-> hist]
    ELSE [estado |-> "corrompido", dados |-> <<>>]

Sair ==
    /\ fase = "sessao"
    /\ \E disco \in ResultadosDisco :
          /\ exportado' = exportar_historico(exportado, historico, disco)
          /\ ult' = [UltInicial EXCEPT !.op = "sair", !.disco = disco]
    /\ fase' = "encerrado"
    /\ UNCHANGED <<historico, cache_respostas, blob, geradas>>

Next ==
    \/ responder
    \/ adicionar_conhecimento_personalizado
    \/ carregar_cache
    \/ Sair

Spec == Init /\ [][Next]_vars

----------------------------------------------------------------------------
(* The history search on its own: any history of up to MaxBusca            *)
(* Interactions, searched with any of the queries.                         *)

MaxBusca == 3

PerguntasBusca == { <<"a">>, <<"b">>, <<"A", "b">> }

Consultas == { <<"a">>, <<"c", " ", "A", "B">>, <<" ", "B", " ", " ", "a", "\t", "b">> }

InteracoesBusca == [pergunta : PerguntasBusca, resposta : Respostas]

InitBusca ==
    /\ historico \in UNION { [1..n -> InteracoesBusca] : n \in 0..MaxBusca }
    /\ cache_respostas = MapaVazio
    /\ blob = ArquivoAusente
    /\ exportado = [estado |-> "ausente", dados |-> <<>>]
    /\ fase = "sessao"
    /\ geradas = Len(historico)
    /\ ult = UltInicial

buscar ==
    /\ fase = "sessao"
    /\ \E pergunta \in Consultas :
          ult' = [UltInicial EXCEPT
                     !.op = "buscar", !.pergunta = pergunta,
                     !.retorno = _buscar_resposta_similar(historico, pergunta)]
    /\ UNCHANGED <<historico, cache_respostas, blob, exportado,
                   fase, geradas>>

NextBusca ==
    \/ buscar

SpecBusca == InitBusca /\ [][NextBusca]_vars

----------------------------------------------------------------------------
(* C1: a responder(q, c, usar_cache=True) call that immediately follows a  *)
(* responder(q, c, usar_cache=True) call answered by live generation with  *)
(* text V returns exactly V from the cache and makes no chat-API call,     *)
(* whatever its offline flag and the available memory.                     *)
C1_LeituraAposEscrita ==
    (ult.op = "responder" /\ ult.previo # Nulo) =>
        /\ ult.retorno = ult.previo
        /\ ult.chamadas = 0
        /\ ult.caminho = "cache"

C1_Testemunha ==
    /\ ult.op = "responder" /\ ult.previo # Nulo
    /\ ult.offline
    /\ ult.retorno = ult.previo

(* C2: a responder call whose resource check samples less than 3 GB of     *)
(* available memory makes no chat-API call, returns the "resources low"    *)
(* sentinel and leaves history and cache unchanged; a sample of exactly    *)
(* 3 GB (or more) passes the gate and the chat API is called.              *)
C2_PortaoDeRecursos ==
    [][ (ult'.op = "responder" /\ ult'.verificacoes = 1) =>
            IF ult'.ram < 3 * 1024 * 1024
            THEN /\ ult'.chamadas = 0
                 /\ ult'.retorno = MSG_POUCOS_RECURSOS
                 /\ historico' = historico
                 /\ cache_respostas' = cache_respostas
            ELSE ult'.chamadas = 1 ]_vars

C2_Testemunha ==
    /\ ult.op = "responder" /\ ult.caminho = "recursos"
    /\ ult.ram = 3 * 1024 * 1024 - 1
    /\ ult.retorno = MSG_POUCOS_RECURSOS

(* C3: the history search returns the "no history" sentinel on an empty    *)
(* history; otherwise the tagged answer of the earliest Interaction whose  *)
(* score (query tokens, counted with repetition, that are substrings of    *)
(* the lowercased stored question) is the maximum, when that maximum is    *)
(* positive, and the "no similar answer" sentinel when it is 0.  The       *)
(* result is defined for every history and query and the search changes    *)
(* neither the history nor the cache.                                      *)
C3_Score(hist, consulta, i) ==
    LET palavras == split(lower(consulta))
    IN Cardinality({ k \in 1..Len(palavras) :
                        Contem(palavras[k], lower(hist[i].pergunta)) })

C3_Esperado(hist, consulta) ==
    IF Len(hist) = 0 THEN MSG_SEM_HISTORICO
    ELSE LET maximo == CHOOSE m \in 0..Len(consulta) :
                          /\ \E i \in 1..Len(hist) : C3_Score(hist, consulta, i) = m
                          /\ \A i \in 1..Len(hist) : C3_Score(hist, consulta, i) <= m
         IN IF maximo > 0
            THEN LET primeiro == CHOOSE i \in 1..Len(hist) :
                                    /\ C3_Score(hist, consulta, i) = maximo
                                    /\ \A j \in 1..(i - 1) :
                                          C3_Score(hist, consulta, j) # maximo
                 IN TAG_HISTORICO \o hist[primeiro].resposta
            ELSE MSG_NENHUMA_SIMILAR

C3_BuscaOffline ==
    /\ [](ult.op = "buscar" => ult.retorno = C3_Esperado(historico, ult.pergunta))
    /\ [][ult'.op = "buscar" =>
             /\ historico' = historico
             /\ cache_respostas' = cache_respostas]_vars

C3_Testemunha ==
    /\ ult.op = "buscar"
    /\ Len(historico) = 3
    /\ C3_Score(historico, ult.pergunta, 1) < C3_Score(historico, ult.pergunta, 2)
    /\ C3_Score(historico, ult.pergunta, 2) = C3_Score(historico, ult.pergunta, 3)
    /\ historico[2].resposta # historico[3].resposta
    /\ ult.retorno = TAG_HISTORICO \o historico[2].resposta

(* C4 as stated: every cache entry holds the text of a successful          *)
(* generation made for that entry's question, in this session (the         *)
(* Interaction it appended) or in the session that wrote the blob.         *)
C4_TodaEntradaGerada ==
    \A k \in DOMAIN cache_respostas :
        \/ \E i \in 1..Len(historico) :
              /\ historico[i].resposta = cache_respostas[k]
              /\ \E ch \in Chamadas :
                    k = historico[i].pergunta \o <<"_">> \o ch.contexto_aula
        \/ /\ k \in DOMAIN SessaoAnterior
           /\ SessaoAnterior[k] = cache_respostas[k]

(* C4 amended: every cache write made by responder corresponds to exactly  *)
(* one successful generation: responder changes the cache only in a call   *)
(* whose chat-API call succeeded with caching enabled, and then sets       *)
(* exactly cache[q_c] to the text that call returned; a call that ends in  *)
(* an error message, the "resources low" sentinel, an offline result or a  *)
(* cache hit leaves the cache as it was.                                   *)
C4_EscritaDoResponder ==
    [][ ult'.op = "responder" =>
          IF ult'.usar /\ ult'.chamadas = 1 /\ ult'.resposta_api # Nulo
          THEN LET k == ult'.pergunta \o <<"_">> \o ult'.contexto IN
               /\ geradas' = geradas + 1
               /\ DOMAIN cache_respostas' = DOMAIN cache_respostas \cup {k}
               /\ cache_respostas'[k] = ult'.resposta_api
               /\ \A j \in DOMAIN cache_respostas \ {k} :
                     cache_respostas'[j] = cache_respostas[j]
          ELSE cache_respostas' = cache_respostas ]_vars

C4_Testemunha ==
    /\ ult.op = "responder" /\ ult.caminho = "gerada" /\ ult.usar
    /\ (ult.pergunta \o <<"_">> \o ult.contexto) \in DOMAIN cache_respostas
    /\ cache_respostas[ult.pergunta \o <<"_">> \o ult.contexto] = ult.resposta_api

(* C5 as stated: after a cached live answer, after a bulk load and after   *)
(* the program has exited, the blob on disk equals the in-memory cache.    *)
C5_BlobIgualAoCache ==
    ( \/ ult.op = "responder" /\ ult.caminho = "gerada" /\ ult.usar
      \/ ult.op = "adicionar" /\ ult.caminho = "completo"
      \/ fase = "encerrado" )
    => (blob.estado = "ok" /\ blob.dados = cache_respostas)

(* C5 amended: the blob is written only by _salvar_cache, which is called  *)
(* exactly by a responder call that caches a live answer and by a bulk     *)
(* load that read its whole list; when that write succeeds the blob equals *)
(* the in-memory cache as the operation completes (a failed write is       *)
(* swallowed and a bulk load that fails part-way saves nothing).  No other *)
(* operation writes the blob; shutdown exports the history and leaves the  *)
(* blob as it was.                                                         *)
C5_PersistenciaDoCache ==
    /\ [](ult.salvamentos = 1 <=>
             \/ ult.op = "responder" /\ ult.chamadas = 1
                  /\ ult.resposta_api # Nulo /\ ult.usar
             \/ ult.op = "adicionar" /\ ult.caminho = "completo")
    /\ []((ult.salvamentos = 1 /\ ult.disco = "ok") =>
             (blob.estado = "ok" /\ blob.dados = cache_respostas))
    /\ [][ult'.salvamentos = 0 => blob' = blob]_vars

C5_Testemunha ==
    /\ ult.op = "adicionar" /\ ult.caminho = "completo" /\ ult.disco = "ok"
    /\ cache_respostas # MapaVazio
    /\ blob.estado = "ok" /\ blob.dados = cache_respostas

(* C6 as stated: right after a bulk load of a list whose last item for     *)
(* question q carries answer a, responder(q) with empty context and        *)
(* caching enabled returns a and makes no chat-API call.                   *)
C6_ConhecimentoServido ==
    (ult.op = "responder" /\ ult.carregado # Nulo) =>
        /\ ult.retorno = ult.carregado
        /\ ult.chamadas = 0

(* C7: resolution order of responder.  (1) With caching enabled and the    *)
(* composite key in the cache, the cached value is returned with no        *)
(* resource check, no chat-API call and no change to history or cache,     *)
(* also in offline mode.  (2) Otherwise, in offline mode, the result of    *)
(* the history search is returned with no resource check, no chat-API call *)
(* and no change to history or cache.  (3) Otherwise the resource gate is  *)
(* evaluated once and the chat API is called iff it passes.  A call with   *)
(* usar_cache=False neither reads nor writes the cache.                    *)
C7_OrdemDeResolucao ==
    [][ ult'.op = "responder" =>
          LET k == ult'.pergunta \o <<"_">> \o ult'.contexto IN
          /\ IF ult'.usar /\ k \in DOMAIN cache_respostas
             THEN /\ ult'.retorno = cache_respostas[k]
                  /\ ult'.verificacoes = 0 /\ ult'.chamadas = 0
                  /\ historico' = historico
                  /\ cache_respostas' = cache_respostas
             ELSE IF ult'.offline
             THEN /\ ult'.retorno = C3_Esperado(historico, ult'.pergunta)
                  /\ ult'.verificacoes = 0 /\ ult'.chamadas = 0
                  /\ historico' = historico
                  /\ cache_respostas' = cache_respostas
             ELSE /\ ult'.verificacoes = 1
                  /\ ult'.chamadas = (IF ult'.ram >= 3 * 1024 * 1024 THEN 1 ELSE 0)
          /\ ~ult'.usar => cache_respostas' = cache_respostas ]_vars

C7_Testemunha ==
    /\ ult.op = "responder" /\ ult.caminho = "cache"
    /\ ult.offline /\ ult.usar
    /\ ult.verificacoes = 0 /\ ult.chamadas = 0
    /\ ult.retorno = cache_respostas[ult.pergunta \o <<"_">> \o ult.contexto]

C9_Tem(palavra, erro) ==
    \E i \in 1..Len(erro) :
        /\ i + Len(palavra) - 1 <= Len(erro)
        /\ \A j \in 1..Len(palavra) : Minuscula(erro[i + j - 1]) = palavra[j]

C9_Mensagem(erro) ==
    CASE C9_Tem(<<"c", "o", "n", "n", "e", "c", "t", "i", "o", "n">>, erro)
            -> MSG_CONEXAO
      [] /\ ~C9_Tem(<<"c", "o", "n", "n", "e", "c", "t", "i", "o", "n">>, erro)
         /\ C9_Tem(<<"m", "e", "m", "o", "r", "y">>, erro)
            -> MSG_MEMORIA
      [] /\ ~C9_Tem(<<"c", "o", "n", "n", "e", "c", "t", "i", "o", "n">>, erro)
         /\ ~C9_Tem(<<"m", "e", "m", "o", "r", "y">>, erro)
         /\ C9_Tem(<<"m", "o", "d", "e", "l">>, erro)
            -> MSG_MODELO
      [] OTHER -> MSG_INESPERADO

C9_FalhaDaApi ==
    /\ []((ult.op = "responder" /\ ult.chamadas = 1 /\ ult.resposta_api = Nulo) =>
             /\ ult.erro_log \in Erros
             /\ ult.retorno = C9_Mensagem(ult.erro_log))
    /\ [][ (ult'.op = "responder" /\ ult'.chamadas = 1 /\ ult'.resposta_api = Nulo) =>
              /\ historico' = historico
              /\ cache_respostas' = cache_respostas
              /\ blob' = blob
              /\ ult'.salvamentos = 0 ]_vars

C9_Testemunha ==
    /\ ult.op = "responder" /\ ult.caminho = "erro"
    /\ ult.erro_log = ERRO_MEMORIA
    /\ ult.retorno = MSG_MEMORIA
    /\ ult.usar

(* C10 as stated: whenever responder calls the chat API, the request       *)
(* carries the prompt built by otimizar_prompt from the preamble, the      *)
(* lesson context, the last 3 Interactions and the question.               *)
C10_PromptEnviado ==
    [][ (ult'.op = "responder" /\ ult'.chamadas = 1) =>
          \E i \in 1..Len(ult'.requisicao) :
              ult'.requisicao[i].content =
                  otimizar_prompt(historico, ult'.pergunta, ult'.contexto) ]_vars

(* C11 as stated: a cache hit returns only an answer stored for the same   *)
(* (question, context) pair.  Taken on two consecutive calls: when a       *)
(* responder call for (q1, c1) has just cached its live answer, a          *)
(* responder call for a different pair (q2, c2) is not answered from the   *)
(* entry that call stored, also when q1 + "_" + c1 = q2 + "_" + c2.        *)
C11_MemoExato ==
    [][ ( /\ ult.op = "responder" /\ ult.usar
          /\ ult.chamadas = 1 /\ ult.resposta_api # Nulo
          /\ ult'.op = "responder"
          /\ <<ult'.pergunta, ult'.contexto>> # <<ult.pergunta, ult.contexto>> )
        => ~( /\ ult'.chamadas = 0 /\ ult'.verificacoes = 0 /\ ult'.usar
              /\ (ult'.pergunta \o <<"_">> \o ult'.contexto)
                    = (ult.pergunta \o <<"_">> \o ult.contexto)
              /\ ult'.retorno = ult.resposta_api ) ]_vars
====
